---- MODULE Spec2Model ----
(***************************************************************************)
(* Model of render_isometric_blocks.py: the face resolver (pick_by_keys,   *)
(* find_faces), the texture collector and job grouper, the job runner of   *)
(* main, and the canvas/crop tail of make_iso_cube.                        *)
(*                                                                         *)
(* Texture names are TLA+ strings handled character by character.  Paths   *)
(* are sequences of path components.  An image is reduced to its size and  *)
(* the set of its non-transparent pixel coordinates.                       *)
(***************************************************************************)
EXTENDS Integers, Sequences, FiniteSets, TLC

VARIABLES
    \* face resolver (specification SpecFaces)
    textures, picked, faces, fpc,
    \* main (specification Spec)
    blocks_exists, tree, out_existed, out_root_made, size,
    pc, jobs, total, done, cursor, written, warned, summary,
    \* make_iso_cube (specification SpecIso)
    top_iso, left_iso, right_iso, canvas, iso, ipc

facesVars == <<textures, picked, faces, fpc>>
mainVars  == <<blocks_exists, tree, out_existed, out_root_made, size,
               pc, jobs, total, done, cursor, written, warned, summary>>
isoVars   == <<top_iso, left_iso, right_iso, canvas, iso, ipc>>
vars      == <<facesVars, mainVars, isoVars>>

\* Python's None
None == "<None>"

(***************************************************************************)
(* Strings                                                                 *)
(***************************************************************************)
Char(s, i) == SubSeq(s, i, i)

StartsAt(s, i, k) ==
    /\ i >= 1
    /\ i + Len(k) - 1 <= Len(s)
    /\ SubSeq(s, i, i + Len(k) - 1) = k

EndsWith(s, k) == Len(s) >= Len(k) /\ StartsAt(s, Len(s) - Len(k) + 1, k)

\* the character class [_\-] of both regular expressions' delimiters
IsDelim(c) == c \in {"_", "-"}

(***************************************************************************)
(* Face resolver                                                           *)
(***************************************************************************)
TOP_KEYS    == <<"top", "up", "upper">>
BOTTOM_KEYS == <<"bottom", "down", "lower">>
SIDE_KEYS   == <<"side", "sides">>
FACE_KEYS   == [north |-> <<"north">>, south |-> <<"south">>,
                east  |-> <<"east">>,  west  |-> <<"west">>]

\* the same search without the delimiter groups (a plain substring test)
ReSearchKeyLoose(stem, k) ==
    \E i \in 1..Len(stem) : StartsAt(stem, i, k)

\* re.search(rf"(^|[_\-]){k}([_\-]|$)", stem): some occurrence of k in stem
\* that starts at the string start or after a delimiter, and ends at the
\* string end or before a delimiter.
ReSearchKey(stem, k) ==
    \E i \in 1..Len(stem) :
        /\ StartsAt(stem, i, k)
        /\ (i = 1 \/ IsDelim(Char(stem, i - 1)))
        /\ (i + Len(k) - 1 = Len(stem) \/ IsDelim(Char(stem, i + Len(k))))

MatchesAnyKey(stem, keys) ==
    \E j \in 1..Len(keys) : ReSearchKey(stem, keys[j])

\* A texture map dict[stem -> Path] is the sequence of its items in
\* iteration order, each item <<stem, path>>.
\* pick_by_keys: the path of the first item whose stem matches a key.
pick_by_keys(base_stem_to_path, keys) ==
    LET hits == {n \in 1..Len(base_stem_to_path) :
                    MatchesAnyKey(base_stem_to_path[n][1], keys)}
    IN  IF hits = {} THEN None
        ELSE base_stem_to_path[CHOOSE n \in hits : \A m \in hits : n <= m][2]

\* Python's `a or b` on values that are a Path (truthy) or None
Or(a, b) == IF a # None THEN a ELSE b

\* the heuristic bindings with a directional texture preferred to the side one
heuristic_faces_swapped(tex) ==
    LET side_tex == pick_by_keys(tex, SIDE_KEYS)
        north == pick_by_keys(tex, FACE_KEYS.north)
        south == pick_by_keys(tex, FACE_KEYS.south)
        east  == pick_by_keys(tex, FACE_KEYS.east)
        west  == pick_by_keys(tex, FACE_KEYS.west)
    IN  [top    |-> pick_by_keys(tex, TOP_KEYS),
         bottom |-> pick_by_keys(tex, BOTTOM_KEYS),
         left   |-> IF side_tex # None /\ west = None THEN side_tex
                    ELSE Or(west, Or(south, Or(east, north))),
         right  |-> IF side_tex # None /\ east = None THEN side_tex
                    ELSE Or(east, Or(north, Or(west, south)))]

\* lines 53-71: the slots as the keyword heuristics bind them
heuristic_faces(tex) ==
    LET side_tex == pick_by_keys(tex, SIDE_KEYS)
        north == pick_by_keys(tex, FACE_KEYS.north)
        south == pick_by_keys(tex, FACE_KEYS.south)
        east  == pick_by_keys(tex, FACE_KEYS.east)
        west  == pick_by_keys(tex, FACE_KEYS.west)
    IN  [top    |-> pick_by_keys(tex, TOP_KEYS),
         bottom |-> pick_by_keys(tex, BOTTOM_KEYS),
         left   |-> IF side_tex # None THEN side_tex
                    ELSE Or(west, Or(south, Or(east, north))),
         right  |-> IF side_tex # None THEN side_tex
                    ELSE Or(east, Or(north, Or(west, south)))]

\* the fallbacks left out
fill_faces_none(tex, h) == h

\* the fallbacks with the slots tried in the order bottom, right, left, top

fill_faces_bottom_first(tex, h) ==
    LET f == IF \A k \in DOMAIN h : h[k] = None
             THEN [k \in DOMAIN h |-> tex[1][2]]
             ELSE h
        base_tex == Or(f.bottom, Or(f.right, Or(f.left, f.top)))
    IN  [k \in DOMAIN f |-> IF f[k] = None THEN base_tex ELSE f[k]]

\* lines 73-81: the fallbacks applied to the heuristic bindings h
fill_faces(tex, h) ==
    LET f == IF \A k \in DOMAIN h : h[k] = None
             THEN [k \in DOMAIN h |-> tex[1][2]]
             ELSE h
        base_tex == Or(f.top, Or(f.left, Or(f.right, f.bottom)))
    IN  [k \in DOMAIN f |-> IF f[k] = None THEN base_tex ELSE f[k]]

find_faces(tex) == fill_faces(tex, heuristic_faces(tex))

(***************************************************************************)
(* Paths and file names                                                    *)
(***************************************************************************)
\* The characters of the modelled names, in code point order.
ASCII == "-./0123456789ABCDEFGHIJKLMNOPQRSTUVWXYZ_abcdefghijklmnopqrstuvwxyz"
UPPERCASE == "ABCDEFGHIJKLMNOPQRSTUVWXYZ"
LOWERCASE == "abcdefghijklmnopqrstuvwxyz"

OrdTable ==
    [c \in {Char(ASCII, i) : i \in 1..Len(ASCII)} |->
        CHOOSE i \in 1..Len(ASCII) : Char(ASCII, i) = c]

Ord(c) == OrdTable[c]

Max(a, b) == IF a >= b THEN a ELSE b

\* str.__lt__
RECURSIVE StrLess(_, _)
StrLess(a, b) ==
    IF b = "" THEN FALSE
    ELSE IF a = "" THEN TRUE
    ELSE IF Char(a, 1) = Char(b, 1) THEN StrLess(Tail(a), Tail(b))
    ELSE Ord(Char(a, 1)) < Ord(Char(b, 1))

\* Path.__lt__: the component lists compared lexicographically
RECURSIVE PathLess(_, _)
PathLess(p, q) ==
    IF q = <<>> THEN FALSE
    ELSE IF p = <<>> THEN TRUE
    ELSE IF Head(p) = Head(q) THEN PathLess(Tail(p), Tail(q))
    ELSE StrLess(Head(p), Head(q))

\* sorted(...) of a set of paths
Sorted(S) ==
    LET rank == [p \in S |-> Cardinality({q \in S : PathLess(q, p)})]
    IN  [i \in 1..Cardinality(S) |-> CHOOSE p \in S : rank[p] = i - 1]

\* Path.name
Name(p) == p[Len(p)]

\* Path.stem: the name without its last suffix
Stem(name) ==
    LET dots == {i \in 1..Len(name) : Char(name, i) = "."}
        last == IF dots = {} THEN 0
                ELSE CHOOSE i \in dots : \A j \in dots : j <= i
    IN  IF last > 1 /\ last < Len(name) THEN SubSeq(name, 1, last - 1) ELSE name

\* str.lower
LowerChar(c) ==
    IF \E i \in 1..Len(UPPERCASE) : Char(UPPERCASE, i) = c
    THEN Char(LOWERCASE, CHOOSE i \in 1..Len(UPPERCASE) : Char(UPPERCASE, i) = c)
    ELSE c

RECURSIVE Lower(_)
Lower(s) == IF s = "" THEN "" ELSE LowerChar(Char(s, 1)) \o Lower(Tail(s))

(***************************************************************************)
(* Ordered dictionaries: sequences of <<key, value>> with distinct keys    *)
(***************************************************************************)
Keys(d) == {d[i][1] : i \in 1..Len(d)}
IndexOf(d, k) == CHOOSE i \in 1..Len(d) : d[i][1] = k
Get(d, k) == d[IndexOf(d, k)][2]
\* d[k] = v: a present key keeps its position, a new key goes last
Put(d, k, v) ==
    IF k \in Keys(d) THEN [d EXCEPT ![IndexOf(d, k)] = <<k, v>>]
    ELSE Append(d, <<k, v>>)

(***************************************************************************)
(* Texture collector and job grouper                                       *)
(***************************************************************************)
\* the paths under directory path `dir` of the tree (a set of file paths)
Under(files, dir) ==
    {p \in files : Len(p) > Len(dir) /\ SubSeq(p, 1, Len(dir)) = dir}

\* moddir.rglob("*.png")
RGlobPng(files, moddir) == {p \in Under(files, moddir) : EndsWith(Name(p), ".png")}

RECURSIVE CollectFrom(_, _, _)
CollectFrom(ps, n, acc) ==
    IF n > Len(ps) THEN acc
    ELSE IF EndsWith(Name(ps[n]), ".png.mcmeta") THEN CollectFrom(ps, n + 1, acc)
    ELSE CollectFrom(ps, n + 1, Put(acc, Lower(Stem(Name(ps[n]))), ps[n]))

collect_textures_in_moddir(files, moddir) ==
    CollectFrom(Sorted(RGlobPng(files, moddir)), 1, <<>>)

SUFFIXES == {"top", "bottom", "side", "north", "south", "east", "west"}

\* re.sub(r"(_(top|bottom|side|north|south|east|west))$", "", stem)
BaseOf(stem) ==
    IF \E t \in SUFFIXES : EndsWith(stem, "_" \o t)
    THEN LET t == CHOOSE t \in SUFFIXES : EndsWith(stem, "_" \o t)
         IN  SubSeq(stem, 1, Len(stem) - Len(t) - 1)
    ELSE stem

\* the grouping with one group appended per texture, never merged
RECURSIVE GroupFromNoMerge(_, _, _)
GroupFromNoMerge(tex, n, groups) ==
    IF n > Len(tex) THEN groups
    ELSE GroupFromNoMerge(tex, n + 1,
            Append(groups, <<BaseOf(tex[n][1]), <<tex[n]>>>>))

\* lines 167-170: groups.setdefault(base, {})[stem] = path
RECURSIVE GroupFrom(_, _, _)
GroupFrom(tex, n, groups) ==
    IF n > Len(tex) THEN groups
    ELSE LET base == BaseOf(tex[n][1])
             old  == IF base \in Keys(groups) THEN Get(groups, base) ELSE <<>>
         IN  GroupFrom(tex, n + 1, Put(groups, base, Put(old, tex[n][1], tex[n][2])))

\* lines 164-172: the jobs of one mod directory
JobsOfMod(files, moddir) ==
    LET tex    == collect_textures_in_moddir(files, moddir)
        groups == GroupFrom(tex, 1, <<>>)
    IN  [g \in 1..Len(groups) |->
            [modid |-> Name(moddir), base |-> groups[g][1], texmap |-> groups[g][2]]]

RECURSIVE JobsOf(_, _, _)
JobsOf(files, mod_dirs, n) ==
    IF n > Len(mod_dirs) THEN <<>>
    ELSE JobsOfMod(files, mod_dirs[n]) \o JobsOf(files, mod_dirs, n + 1)

(***************************************************************************)
(* Isometric compositor, lines 111-129, on alpha masks                     *)
(***************************************************************************)
\* Image.new("RGBA", (w, h), (0,0,0,0))
NewImage(w, h) == [w |-> w, h |-> h, px |-> {}]

\* alpha_composite(dest, src, offset): src pasted through its own alpha,
\* clipped to dest
alpha_composite(dest, src, offset) ==
    [dest EXCEPT !.px = @ \cup
        {q \in {<<p[1] + offset[1], p[2] + offset[2]>> : p \in src.px} :
            q[1] \in 0..(dest.w - 1) /\ q[2] \in 0..(dest.h - 1)}]

\* Image.getbbox with its right and lower bounds taken inclusive
getbbox_inclusive(img) ==
    IF img.px = {} THEN None
    ELSE LET xs == {p[1] : p \in img.px}
             ys == {p[2] : p \in img.px}
         IN  <<CHOOSE x \in xs : \A o \in xs : x <= o,
               CHOOSE y \in ys : \A o \in ys : y <= o,
               CHOOSE x \in xs : \A o \in xs : x >= o,
               CHOOSE y \in ys : \A o \in ys : y >= o>>

\* Image.getbbox: (left, upper, right, lower) of the non-transparent
\* pixels, right and lower exclusive; None for a fully transparent image
getbbox(img) ==
    IF img.px = {} THEN None
    ELSE LET xs == {p[1] : p \in img.px}
             ys == {p[2] : p \in img.px}
         IN  <<CHOOSE x \in xs : \A o \in xs : x <= o,
               CHOOSE y \in ys : \A o \in ys : y <= o,
               (CHOOSE x \in xs : \A o \in xs : x >= o) + 1,
               (CHOOSE y \in ys : \A o \in ys : y >= o) + 1>>

\* Image.crop(box)
crop(img, box) ==
    [w  |-> box[3] - box[1],
     h  |-> box[4] - box[2],
     px |-> {<<p[1] - box[1], p[2] - box[2]>> :
                p \in {q \in img.px : /\ q[1] >= box[1] /\ q[1] < box[3]
                                      /\ q[2] >= box[2] /\ q[2] < box[4]}}]

\* lines 111-124: the canvas before cropping
compose(top, left, right) ==
    LET canvas_w == top.w + left.w + right.w
        canvas_h == top.h + Max(left.h, right.h)
        top_x    == (canvas_w - top.w) \div 2
        top_y    == 0
        left_x   == top_x - left.w \div 2
        left_y   == top.h - 1
        right_x  == top_x + top.w - right.w \div 2
        right_y  == top.h - 1
        c0 == NewImage(canvas_w, canvas_h)
        c1 == alpha_composite(c0, left, <<left_x, left_y>>)
        c2 == alpha_composite(c1, right, <<right_x, right_y>>)
    IN  alpha_composite(c2, top, <<top_x, top_y>>)

\* lines 126-129
crop_to_bbox(c) ==
    LET bbox == getbbox(c)
    IN  IF bbox # None THEN crop(c, bbox) ELSE c

(***************************************************************************)
(* Bounds and inputs                                                       *)
(***************************************************************************)
MaxTex    == 4    \* textures in a texture map given to the face resolver
MaxPieces == 3    \* name pieces concatenated into a generated texture name
MaxFiles  == 4    \* files in the blocks tree
MaxDim    == 2    \* width and height of the transformed top face
MaxSize   == 2    \* --size of the compositor runs
MaxOpaque == 1    \* non-transparent pixels of one transformed face

\* --size default
DEFAULT_SIZE == 128

\* stems of the face resolver's texture maps
FaceStems == {"stone_top", "stone-up", "stone_bottom", "stone_side",
              "stone_north", "stone_south", "stone_east", "stone_west", "lever"}

\* pieces of the generated names
Pieces == {"north", "side", "up", "per", "s", "x", "_", "-"}

RECURSIVE NamesOf(_)
NamesOf(n) ==
    IF n = 0 THEN {""}
    ELSE LET shorter == NamesOf(n - 1)
         IN  shorter \cup {a \o b : a \in shorter, b \in Pieces}

GeneratedStems == (NamesOf(MaxPieces) \ {""}) \cup {"northlands_block", "northite"}

PathOfStem(stem) == <<"blocks", "m", stem \o ".png">>

Injective(f) == \A i, j \in DOMAIN f : f[i] = f[j] => i = j

\* the sequences of n distinct elements of S
RECURSIVE DistinctSeqs(_, _)
DistinctSeqs(S, n) ==
    IF n = 0 THEN {<<>>}
    ELSE {Append(f, x) : <<f, x>> \in
            {fx \in DistinctSeqs(S, n - 1) \X S :
                \A i \in 1..(n - 1) : fx[1][i] # fx[2]}}

\* texture maps: items in any iteration order, distinct stems
RECURSIVE FaceMapsUpTo(_)
FaceMapsUpTo(n) ==
    IF n = 0 THEN {}
    ELSE FaceMapsUpTo(n - 1) \cup
         {[i \in 1..n |-> <<f[i], PathOfStem(f[i])>>] : f \in DistinctSeqs(FaceStems, n)}

FaceMaps == FaceMapsUpTo(MaxTex)

GeneratedMaps == {<<<<s, PathOfStem(s)>>>> : s \in GeneratedStems}

KeySets == {TOP_KEYS, BOTTOM_KEYS, SIDE_KEYS,
            FACE_KEYS.north, FACE_KEYS.south, FACE_KEYS.east, FACE_KEYS.west}

\* the blocks tree: file paths below the root
ROOT == <<"blocks">>
FileUniverse ==
    {ROOT \o <<"a", "stone.png">>,
     ROOT \o <<"a", "stone_top.png">>,
     ROOT \o <<"a", "stone-side.png">>,
     ROOT \o <<"a", "top_stone.png">>,
     ROOT \o <<"a", "sub", "STONE.png">>,
     ROOT \o <<"a", "stone_top.png.mcmeta">>,
     ROOT \o <<"b", "stone.png">>,
     ROOT \o <<"b", "stone_side.png">>,
     ROOT \o <<"stone.png">>,
     ROOT \o <<"stone_north.png">>}

Trees == {t \in SUBSET FileUniverse : Cardinality(t) <= MaxFiles}

SIZES == {0, DEFAULT_SIZE}

\* alpha masks of a w x h image with at most MaxOpaque opaque pixels
Masks(w, h) ==
    {m \in SUBSET ((0..(w - 1)) \X (0..(h - 1))) : Cardinality(m) <= MaxOpaque}

Images(w, h) == {[w |-> w, h |-> h, px |-> m] : m \in Masks(w, h)}

\* lines 94-96: the size of a sheared side face of a size x size image
SideW(sz) == (2 * sz + sz) \div 2
SideH(sz) == sz \div 2

(***************************************************************************)
(* Idle values of the parts a specification does not exercise              *)
(***************************************************************************)
FacesIdle ==
    /\ textures = <<>> /\ picked = None /\ faces = None /\ fpc = "idle"

MainIdle ==
    /\ blocks_exists = FALSE /\ tree = {} /\ out_existed = FALSE
    /\ out_root_made = FALSE /\ size = DEFAULT_SIZE /\ pc = "idle"
    /\ jobs = <<>> /\ total = 0 /\ done = 0 /\ cursor = 0
    /\ written = <<>> /\ warned = <<>> /\ summary = None

IsoIdle ==
    /\ top_iso = None /\ left_iso = None /\ right_iso = None
    /\ canvas = None /\ iso = None /\ ipc = "idle"

(***************************************************************************)
(* SpecFaces: the face resolver on every texture map                       *)
(***************************************************************************)
InitFaces ==
    /\ textures \in FaceMaps \cup GeneratedMaps
    /\ picked = None
    /\ faces = None
    /\ fpc = "ready"
    /\ MainIdle /\ IsoIdle

PickByKeys ==
    /\ fpc = "ready"
    /\ \E keys \in KeySets :
          picked' = [keys |-> keys, path |-> pick_by_keys(textures, keys)]
    /\ fpc' = "picked"
    /\ UNCHANGED <<textures, faces, mainVars, isoVars>>

FindFaces ==
    /\ fpc = "ready"
    /\ faces' = find_faces(textures)
    /\ fpc' = "resolved"
    /\ UNCHANGED <<textures, picked, mainVars, isoVars>>

NextFaces == PickByKeys \/ FindFaces

SpecFaces == InitFaces /\ [][NextFaces]_vars

(***************************************************************************)
(* Spec: main                                                              *)
(***************************************************************************)
Init ==
    /\ tree \in Trees
    /\ blocks_exists \in (IF tree = {} THEN BOOLEAN ELSE {TRUE})
    /\ out_existed \in BOOLEAN
    /\ size \in SIZES
    /\ out_root_made = FALSE
    /\ pc = "start"
    /\ jobs = <<>> /\ total = 0 /\ done = 0 /\ cursor = 0
    /\ written = <<>> /\ warned = <<>> /\ summary = None
    /\ FacesIdle /\ IsoIdle

\* lines 149-155: out_root.mkdir(parents=True, exist_ok=True), then the
\* existence test of blocks_root
Start ==
    /\ pc = "start"
    /\ out_root_made' = ~out_existed
    /\ pc' = IF blocks_exists THEN "scan" ELSE "missing_root"
    /\ UNCHANGED <<blocks_exists, tree, out_existed, size, jobs, total, done,
                   cursor, written, warned, summary, facesVars, isoVars>>

\* lines 157-159
ModDirs(files) ==
    LET subdirs == {SubSeq(p, 1, Len(ROOT) + 1) : p \in {q \in files : Len(q) > Len(ROOT) + 1}}
    IN  IF subdirs = {} THEN {ROOT} ELSE subdirs

\* lines 157-177: iterdir yields the mod directories in an arbitrary order
BuildJobs ==
    /\ pc = "scan"
    /\ \E mod_dirs \in {o \in [1..Cardinality(ModDirs(tree)) -> ModDirs(tree)] : Injective(o)} :
          jobs' = JobsOf(tree, mod_dirs, 1)
    /\ total' = Len(jobs')
    /\ pc' = IF total' = 0 THEN "no_jobs" ELSE "render"
    /\ done' = 0
    /\ cursor' = 1
    /\ UNCHANGED <<blocks_exists, tree, out_existed, out_root_made, size,
                   written, warned, summary, facesVars, isoVars>>

\* nearest_resize(img, size, size): Image.resize raises ValueError for a
\* width or height below 1
ResizeRaises(sz) == sz < 1

\* lines 181-190: a face image fails to load; the exception is caught
RunJobLoadFails ==
    /\ pc = "render"
    /\ cursor <= total
    /\ warned' = Append(warned, <<jobs[cursor].modid, jobs[cursor].base>>)
    /\ done' = done + 1
    /\ cursor' = cursor + 1
    /\ UNCHANGED <<blocks_exists, tree, out_existed, out_root_made, size, pc,
                   jobs, total, written, summary, facesVars, isoVars>>

\* lines 181-186, 192-200: the three faces load; make_iso_cube and the save
\* run outside the try block
RunJobRenders ==
    /\ pc = "render"
    /\ cursor <= total
    /\ LET f == find_faces(jobs[cursor].texmap)
       IN  f.top # None /\ f.left # None /\ f.right # None
    /\ IF ResizeRaises(size)
       THEN /\ pc' = "crashed"
            /\ UNCHANGED <<done, cursor, written>>
       ELSE /\ written' = Append(written,
                            <<jobs[cursor].modid, jobs[cursor].base \o ".png">>)
            /\ done' = done + 1
            /\ cursor' = cursor + 1
            /\ pc' = pc
    /\ UNCHANGED <<blocks_exists, tree, out_existed, out_root_made, size,
                   jobs, total, warned, summary, facesVars, isoVars>>

\* lines 202-203
Finish ==
    /\ pc = "render"
    /\ cursor > total
    /\ summary' = [done |-> done, total |-> total]
    /\ pc' = "finished"
    /\ UNCHANGED <<blocks_exists, tree, out_existed, out_root_made, size,
                   jobs, total, done, cursor, written, warned, facesVars, isoVars>>

Next == Start \/ BuildJobs \/ RunJobLoadFails \/ RunJobRenders \/ Finish

Spec == Init /\ [][Next]_vars

(***************************************************************************)
(* SpecIso: the canvas and crop of make_iso_cube                           *)
(***************************************************************************)
InitIso ==
    /\ \E w \in 1..MaxDim, h \in 1..MaxDim : top_iso \in Images(w, h)
    /\ \E sz \in 1..MaxSize :
          /\ left_iso  \in Images(SideW(sz), SideH(sz))
          /\ right_iso \in Images(SideW(sz), SideH(sz))
    /\ canvas = None
    /\ iso = None
    /\ ipc = "ready"
    /\ FacesIdle /\ MainIdle

MakeIsoCube ==
    /\ ipc = "ready"
    /\ canvas' = compose(top_iso, left_iso, right_iso)
    /\ iso' = crop_to_bbox(canvas')
    /\ ipc' = "done"
    /\ UNCHANGED <<top_iso, left_iso, right_iso, facesVars, mainVars>>

NextIso == MakeIsoCube

SpecIso == InitIso /\ [][NextIso]_vars

(***************************************************************************)
(* Properties                                                              *)
(***************************************************************************)
\* the underscore/hyphen-separated segments of a name
RECURSIVE SplitFrom(_, _, _)
SplitFrom(s, cur, acc) ==
    IF s = "" THEN Append(acc, cur)
    ELSE IF IsDelim(Char(s, 1)) THEN SplitFrom(Tail(s), "", Append(acc, cur))
    ELSE SplitFrom(Tail(s), cur \o Char(s, 1), acc)

Segments(s) == LET seq == SplitFrom(s, "", <<>>) IN {seq[i] : i \in 1..Len(seq)}

HasSegmentIn(stem, keys) == \E j \in 1..Len(keys) : keys[j] \in Segments(stem)

\* the path of the first item of tex one of whose segments is a key
FirstWithSegment(tex, keys) ==
    LET hits == {n \in 1..Len(tex) : HasSegmentIn(tex[n][1], keys)}
    IN  IF hits = {} THEN None
        ELSE tex[CHOOSE n \in hits : \A m \in hits : n <= m][2]

PathsOf(tex) == {tex[i][2] : i \in 1..Len(tex)}
StemsOf(tex) == {tex[i][1] : i \in 1..Len(tex)}
Slots == {"top", "bottom", "left", "right"}

\* C1: for a non-empty texture map, find_faces binds each of top, bottom,
\* left and right to a path of that map; no slot is None.
C1_AllSlotsBound ==
    fpc = "resolved" =>
        /\ DOMAIN faces = Slots
        /\ \A k \in Slots : faces[k] # None /\ faces[k] \in PathsOf(textures)

\* a map some slot of which no keyword heuristic binds, resolved
C1_Witness ==
    /\ fpc = "resolved"
    /\ \E k \in Slots : heuristic_faces(textures)[k] = None
    /\ \E k \in Slots : heuristic_faces(textures)[k] # None

\* C2: pick_by_keys returns the path of the first item, in iteration order,
\* one of whose underscore/hyphen-separated segments equals one of the keys,
\* and None when no item has such a segment.
C2_WholeSegmentMatch ==
    fpc = "picked" => picked.path = FirstWithSegment(textures, picked.keys)

\* a name holding the key only as a substring is not picked
C2_Witness ==
    /\ fpc = "picked"
    /\ picked.keys = FACE_KEYS.north
    /\ textures[1][1] = "northlands_block"
    /\ picked.path = None

\* C3: with a side/sides texture, left and right are both that texture;
\* without one, left is the first present of west, south, east, north and
\* right the first present of east, north, west, south.
C3_SideThenDirections ==
    fpc = "resolved" =>
        LET side  == FirstWithSegment(textures, <<"side", "sides">>)
            north == FirstWithSegment(textures, <<"north">>)
            south == FirstWithSegment(textures, <<"south">>)
            east  == FirstWithSegment(textures, <<"east">>)
            west  == FirstWithSegment(textures, <<"west">>)
            lefts  == <<west, south, east, north>>
            rights == <<east, north, west, south>>
            FirstPresent(c) ==
                IF \E i \in 1..4 : c[i] # None
                THEN c[CHOOSE i \in 1..4 :
                          c[i] # None /\ \A j \in 1..(i - 1) : c[j] = None]
                ELSE None
        IN  IF side # None
            THEN faces.left = side /\ faces.right = side
            ELSE /\ FirstPresent(lefts) # None => faces.left = FirstPresent(lefts)
                 /\ FirstPresent(rights) # None => faces.right = FirstPresent(rights)

\* the group of exactly the four directional textures
C3_Witness ==
    /\ fpc = "resolved"
    /\ Len(textures) = 4
    /\ StemsOf(textures) = {"stone_north", "stone_south", "stone_east", "stone_west"}
    /\ faces.left = PathOfStem("stone_west")
    /\ faces.right = PathOfStem("stone_east")

\* C4: a slot the heuristics bind keeps that binding; a slot they leave
\* unbound gets the first bound one of top, left, right, bottom; when the
\* heuristics bind nothing, all four slots get one single texture of the map.
C4_FallbackOrder ==
    fpc = "resolved" =>
        LET h == heuristic_faces(textures)
            order == <<h.top, h.left, h.right, h.bottom>>
        IN  IF \A k \in Slots : h[k] = None
            THEN \E p \in PathsOf(textures) : \A k \in Slots : faces[k] = p
            ELSE LET first == order[CHOOSE i \in 1..4 :
                                 order[i] # None /\ \A j \in 1..(i - 1) : order[j] = None]
                 IN  \A k \in Slots :
                        faces[k] = IF h[k] # None THEN h[k] ELSE first

\* a slot is filled from left although bottom is bound too
C4_Witness ==
    /\ fpc = "resolved"
    /\ heuristic_faces(textures).top = None
    /\ heuristic_faces(textures).bottom # None
    /\ heuristic_faces(textures).left # None
    /\ heuristic_faces(textures).left # heuristic_faces(textures).bottom
    /\ faces.top = heuristic_faces(textures).left

\* the base identifier as the grouper's contract words it: one trailing
\* face-suffix token removed when an underscore or a hyphen precedes it
BaseByContract(stem) ==
    IF \E t \in SUFFIXES : EndsWith(stem, "_" \o t) \/ EndsWith(stem, "-" \o t)
    THEN LET t == CHOOSE t \in SUFFIXES :
                      EndsWith(stem, "_" \o t) \/ EndsWith(stem, "-" \o t)
         IN  SubSeq(stem, 1, Len(stem) - Len(t) - 1)
    ELSE stem

JobsBuilt == pc \in {"no_jobs", "render", "crashed", "finished"}

\* C5: every texture of a job's group has the job's base as its name with
\* one trailing _token or -token removed, and textures of one mod with the
\* same such base are in one group.
C5_SuffixStripped ==
    JobsBuilt =>
        /\ \A j \in 1..Len(jobs) : \A s \in StemsOf(jobs[j].texmap) :
              jobs[j].base = BaseByContract(s)
        /\ \A i, j \in 1..Len(jobs) :
              \A s \in StemsOf(jobs[i].texmap), t \in StemsOf(jobs[j].texmap) :
                 (jobs[i].modid = jobs[j].modid /\ BaseByContract(s) = BaseByContract(t))
                     => i = j

\* C6: a run that started rendering ends with every job attempted once and
\* the summary printed.
C6_BatchNeverAborts ==
    pc \in {"crashed", "finished"} =>
        /\ summary # None
        /\ Len(written) + Len(warned) = total

\* C7: the produced count of the summary is the number of output files
\* written, and the attempted count is the number of jobs.
C7_SummaryCountsProduced ==
    pc = "finished" =>
        /\ summary.done = Len(written)
        /\ summary.total = Len(jobs)

\* C8: with blocks_dir missing the run halts having created nothing at the
\* output location.
C8_NoOutputOnMissingRoot ==
    pc = "missing_root" => ~out_root_made /\ jobs = <<>> /\ written = <<>>

\* C10: every collected texture name is in exactly one group of its mod, no
\* group is empty, no two jobs share (mod, base), and no output path is
\* written twice.
C10_JobsNeverCollide ==
    JobsBuilt =>
        /\ \A m \in ModDirs(tree) :
              \A s \in Keys(collect_textures_in_moddir(tree, m)) :
                 Cardinality({j \in 1..Len(jobs) :
                                 /\ jobs[j].modid = Name(m)
                                 /\ s \in StemsOf(jobs[j].texmap)}) = 1
        /\ \A j \in 1..Len(jobs) : jobs[j].texmap # <<>>
        /\ \A i, j \in 1..Len(jobs) :
              (jobs[i].modid = jobs[j].modid /\ jobs[i].base = jobs[j].base) => i = j
        /\ \A i, j \in 1..Len(written) : written[i] = written[j] => i = j

\* two mods hold a group of the same base, one of them with two textures,
\* and every job wrote its file
C10_Witness ==
    /\ pc = "finished"
    /\ Len(written) = total
    /\ \E i, j \in 1..Len(jobs) :
          /\ i # j
          /\ jobs[i].base = jobs[j].base
          /\ Len(jobs[i].texmap) = 2

\* C9: a composite with a non-transparent pixel is returned cropped so that
\* its first and last row and column each hold a non-transparent pixel and
\* its pixels are those of the composite, shifted; a fully transparent
\* composite is returned as the uncropped canvas.
C9_TightCrop ==
    ipc = "done" =>
        IF canvas.px # {}
        THEN /\ iso.w >= 1 /\ iso.h >= 1
             /\ \E p \in iso.px : p[1] = 0
             /\ \E p \in iso.px : p[1] = iso.w - 1
             /\ \E p \in iso.px : p[2] = 0
             /\ \E p \in iso.px : p[2] = iso.h - 1
             /\ \A p \in iso.px : p[1] \in 0..(iso.w - 1) /\ p[2] \in 0..(iso.h - 1)
             /\ \E dx \in 0..canvas.w, dy \in 0..canvas.h :
                   canvas.px = {<<p[1] + dx, p[2] + dy>> : p \in iso.px}
        ELSE iso = [w  |-> top_iso.w + left_iso.w + right_iso.w,
                    h  |-> top_iso.h + Max(left_iso.h, right_iso.h),
                    px |-> {}]

\* a composite with pixels of two faces, cropped on the left and the right
C9_Witness ==
    /\ ipc = "done"
    /\ Cardinality(canvas.px) >= 2
    /\ iso.w < canvas.w
    /\ iso.w >= 2

====
